---- MODULE Spec2Model ----
(***************************************************************************)
(* Model of the BluPay Africa back-office client:                          *)
(*   - the categorized-transactions hook (use-categorized-transactions.ts) *)
(*   - the cascading filter hook (use-transaction-filters)                 *)
(*   - the admin transactions page (debounced search, fetch effect)        *)
(*   - the API client's 401 interceptor and the auth store's login         *)
(* Each subsystem has its own specification over the shared variables.     *)
(*                                                                         *)
(* JavaScript values that may be null/undefined are modelled as sets of    *)
(* at most one element: {} is null/undefined, {v} is the value v.          *)
(***************************************************************************)
EXTENDS Integers, Sequences, FiniteSets, TLC

\* ---------------------------------------------------------------------
\* Bounds of the model
\* ---------------------------------------------------------------------
\* total number of fetchTransactions calls issued in one behaviour
MaxRequests == 2

\* ---------------------------------------------------------------------
\* JavaScript helpers
\* ---------------------------------------------------------------------
Null == {}
Some(v) == {v}
The(opt) == CHOOSE v \in opt : TRUE

\* `x || d` on an optional number: null, undefined and 0 are falsy
OrDefault(opt, d) == IF opt = Null \/ opt = Some(0) THEN d ELSE The(opt)

\* Math.ceil(n / 10)
CeilDiv10(n) == (n + 9) \div 10

\* ---------------------------------------------------------------------
\* Categorized-transactions hook: state
\* ---------------------------------------------------------------------
VARIABLES
    tx,              \* category -> {data, meta, loading, error}
    currentCategory, \* the hook's current category
    calls,           \* the fetchTransactions calls issued so far, in order:
                     \* each [category, params, outcome], "pending" while unresolved
    lastStep         \* the fetch step taken last (observation of the run)

hookVars == <<tx, currentCategory, calls, lastStep>>

\* Cascading filter hook (useTransactionFilters): state
VARIABLES
    filters,       \* EnhancedTransactionFilters
    filterData,    \* option lists, loading flags and error strings
    optInflight,   \* unresolved option requests: [kind, arg, seq]
    optIssued,     \* number of option requests issued so far
    lastFilterOp   \* the hook action or reply handled last (observation);
                   \* the setters without cascade are all recorded as "setLeaf"

filterVars == <<filters, filterData, optInflight, optIssued, lastFilterOp>>

\* API client and auth store: state
VARIABLES
    user,            \* the store's user (null or {id, role})
    isLoading,       \* the store's isLoading
    authError,       \* the store's error (NoError for null)
    showLogoutModal, \* the store's showLogoutModal
    localToken,      \* localStorage['auth_token']
    sessionToken,    \* sessionStorage['auth_token']
    userData,        \* localStorage['user_data']: the stored API user
    location,        \* window.location.href ("app" until a redirect)
    pendingLogins,   \* login calls awaiting the server's reply
    sentAuthorization, \* the Authorization header of the request sent last, if any
    lastAuthStep     \* the store action or reply handled last (observation)

authVars == <<user, isLoading, authError, showLogoutModal, localToken, sessionToken,
              userData, location, pendingLogins, sentAuthorization, lastAuthStep>>

\* Transactions page (TransactionsPage): state
VARIABLES
    pageVariant,     \* which of the repository's two TransactionsPage files runs
    currentPage,     \* useState(1)
    searchQuery,     \* useState(""): the value shown in the search input
    debouncedSearch, \* useState(""): the value the fetch effect reads
    debounceTimer,   \* TRUE while the 500 ms timeout of the debounce effect is armed
    currentFilters,  \* useState<EnhancedTransactionFilters>
    typing,          \* TRUE when the input changed since the timer last fired (observation)
    lastPageStep     \* the page event handled last (observation)

pageVars == <<pageVariant, currentPage, searchQuery, debouncedSearch, debounceTimer,
              currentFilters, typing, lastPageStep>>

\* Report download: state
VARIABLES
    isDownloading,   \* the page's useState(false)
    downloadSuccess, \* the page's useState(false)
    lastReport       \* the report or export request sent last: [method, params]

reportVars == <<isDownloading, downloadSuccess, lastReport>>

\* Service layer: state
VARIABLES
    svcActive,  \* the service method running, if any: [method, requests, pending]
    svcLog      \* the service calls that have returned or thrown, in order:
                \* each [method, requests, outcome], requests = <<[endpoint, fulfilled]>>

serviceVars == <<svcActive, svcLog>>

\* Transaction statistics hook (useTransactionStats): state
VARIABLES
    stats,       \* [loading, error, figures]: figures names the request whose
                 \* analytics the three cards show ("none" for the initial zeros)
    statsCalls   \* the getTransactionAnalytics calls issued so far, in order:
                 \* each [params, outcome], "pending" while unresolved

statsVars == <<stats, statsCalls>>

Categories == {"collection", "reversal", "payout"}

TRANSACTION_CATEGORIES(category) ==
    CASE category = "collection" -> "money_in"
      [] category = "reversal"   -> "reversal"
      [] category = "payout"     -> "money_out"

NoError == "<null>"

initialState == [data |-> <<>>, meta |-> Null, loading |-> FALSE, error |-> NoError]

\* a switch without the 'payout' case: payout falls through to the default
getCategorySetter_NoPayoutCase(category) ==
    CASE category = "collection" -> "collection"
      [] category = "reversal"   -> "reversal"
      [] OTHER                   -> "collection"

\* the state slot written by the setter that getCategorySetter returns
getCategorySetter(category) ==
    CASE category = "collection" -> "collection"
      [] category = "reversal"   -> "reversal"
      [] category = "payout"     -> "payout"
      [] OTHER                   -> "collection"

\* ---------------------------------------------------------------------
\* Responses of transactionService.getCategorizedTransactions
\* ---------------------------------------------------------------------
\* A payload (response.data) is an object whose array-valued properties
\* are data, items, transactions and `others` (any further array-valued
\* properties, in key order), or is itself an array (`self`).
EmptyPayload ==
    [self |-> Null, data |-> Null, items |-> Null, transactions |-> Null,
     others |-> <<>>, meta |-> Null,
     currentPage |-> Null, perPage |-> Null, total |-> Null, lastPage |-> Null]

A0 == <<>>
A1 == <<101>>
A2 == <<201, 202>>
A11 == [i \in 1..11 |-> 300 + i]

ServerMeta == [page |-> 4, perPage |-> 50, total |-> 170, totalPages |-> 4]

Nested(arr, cur, per, tot, last) ==
    [EmptyPayload EXCEPT !.data = Some(arr), !.currentPage = cur, !.perPage = per,
                         !.total = tot, !.lastPage = last]

Payloads ==
    { Nested(A1, Some(2), Some(25), Some(57), Some(3)),
      Nested(A0, Some(1), Some(10), Some(0), Some(0)),
      Nested(A2, Null, Null, Null, Null),
      [EmptyPayload EXCEPT !.items = Some(A2), !.meta = Some(ServerMeta)],
      [EmptyPayload EXCEPT !.self = Some(A11)],
      [EmptyPayload EXCEPT !.transactions = Some(A1)],
      [EmptyPayload EXCEPT !.others = <<A2, A1>>],
      [EmptyPayload EXCEPT !.data = Some(A1), !.items = Some(A2), !.lastPage = Some(2)],
      [EmptyPayload EXCEPT !.items = Some(A2), !.transactions = Some(A1), !.others = <<A11>>],
      [EmptyPayload EXCEPT !.transactions = Some(A1), !.others = <<A2>>],
      [EmptyPayload EXCEPT !.meta = Some(ServerMeta)],
      EmptyPayload }

ServerMessage == "Insufficient permissions"
NetworkError == "Network Error"
TypeErrorMessage == "Cannot read properties of undefined (reading 'success')"

\* outcome: the service call returns, throws an Error, or throws a non-Error;
\* isNull: the returned body is null/undefined (an empty reply)
Envelope(success, status, data) ==
    [outcome |-> "returns", isNull |-> FALSE, success |-> success, status |-> status,
     message |-> ServerMessage, data |-> data]

NoResp == [outcome |-> "none", isNull |-> FALSE, success |-> FALSE, status |-> "",
           message |-> "", data |-> Null]

Responses ==
    { Envelope(TRUE, "", Some(p)) : p \in Payloads }
    \cup { Envelope(FALSE, "success", Some(Nested(A1, Some(1), Some(10), Some(1), Some(1)))),
           Envelope(FALSE, "error", Null),
           Envelope(FALSE, "", Some(EmptyPayload)),
           Envelope(TRUE, "", Null),
           [NoResp EXCEPT !.outcome = "returns", !.isNull = TRUE],
           [NoResp EXCEPT !.outcome = "throwsError", !.message = NetworkError],
           [NoResp EXCEPT !.outcome = "throwsOther"] }

\* ---------------------------------------------------------------------
\* fetchTransactions: normalization of a successful response
\* ---------------------------------------------------------------------
\* a case analysis that looks for `transactions` before `items`
ExtractTransactions_TransactionsFirst(responseData) ==
    IF responseData.data # Null THEN The(responseData.data)
    ELSE IF responseData.transactions # Null THEN The(responseData.transactions)
    ELSE IF responseData.items # Null THEN The(responseData.items)
    ELSE IF responseData.self # Null THEN The(responseData.self)
    ELSE IF Len(responseData.others) > 0 THEN responseData.others[1]
    ELSE <<>>

\* the `transactions` local after the case analysis (lines 125-160)
ExtractTransactions(responseData) ==
    IF responseData.data # Null THEN The(responseData.data)
    ELSE IF responseData.items # Null THEN The(responseData.items)
    ELSE IF responseData.self # Null THEN The(responseData.self)
    ELSE IF responseData.transactions # Null THEN The(responseData.transactions)
    ELSE IF Len(responseData.others) > 0 THEN responseData.others[1]
    ELSE <<>>

\* reads a totalPages property, which the nested shape does not carry
NestedMeta_ReadsTotalPages(responseData) ==
    [page       |-> OrDefault(responseData.currentPage, 1),
     perPage    |-> OrDefault(responseData.perPage, 10),
     total      |-> OrDefault(responseData.total, 0),
     totalPages |-> 1]

\* meta built from the pagination properties of the nested shape (lines 132-137)
NestedMeta(responseData) ==
    [page       |-> OrDefault(responseData.currentPage, 1),
     perPage    |-> OrDefault(responseData.perPage, 10),
     total      |-> OrDefault(responseData.total, 0),
     totalPages |-> OrDefault(responseData.lastPage, 1)]

\* the `meta` local after the case analysis (null when no case sets it)
ExtractMeta(responseData) ==
    IF responseData.data # Null THEN Some(NestedMeta(responseData))
    ELSE IF responseData.items # Null THEN responseData.meta
    ELSE IF responseData.self # Null THEN Null
    ELSE IF responseData.transactions # Null THEN responseData.meta
    ELSE Null

\* a default meta that never reports fewer than one page
DefaultMeta_AtLeastOnePage(transactions) ==
    [page |-> 1, perPage |-> 10, total |-> Len(transactions),
     totalPages |-> IF Len(transactions) = 0 THEN 1 ELSE CeilDiv10(Len(transactions))]

\* meta || { page: 1, perPage: 10, total: n, totalPages: ceil(n / 10) }
DefaultMeta(transactions) ==
    [page |-> 1, perPage |-> 10, total |-> Len(transactions),
     totalPages |-> CeilDiv10(Len(transactions))]

\* the state written on success (lines 165-175)
SuccessState(responseData) ==
    LET transactions == ExtractTransactions(responseData)
        meta == ExtractMeta(responseData)
    IN [data    |-> transactions,
        meta    |-> IF meta # Null THEN meta ELSE Some(DefaultMeta(transactions)),
        loading |-> FALSE,
        error   |-> NoError]

\* a loading state that drops the cached rows while the request runs
LoadingState_ClearsData(prev) ==
    [data |-> <<>>, meta |-> Null, loading |-> TRUE, error |-> NoError]

\* setState(prev => ({ ...prev, loading: true, error: null }))  (line 102)
LoadingState(prev) == [prev EXCEPT !.loading = TRUE, !.error = NoError]

\* a failure path that forgets `...prev` and so drops the cached data
FailedState_DropsPrev(prev, message) ==
    [data |-> <<>>, meta |-> Null, loading |-> FALSE, error |-> message]

\* setState(prev => ({ ...prev, loading: false, error }))  (lines 178-190)
FailedState(prev, message) == [prev EXCEPT !.loading = FALSE, !.error = message]

\* isSuccess && responseData  (lines 115-123)
IsUsable(resp) == (resp.success \/ resp.status = "success") /\ resp.data # Null

\* which branch of fetchTransactions a reply takes
StepKind(resp) ==
    IF resp.outcome # "returns" \/ resp.isNull THEN "exception"
    ELSE IF IsUsable(resp) THEN "success"
    ELSE "failure"

\* a fetchTransactions without its catch: a thrown error leaves the state
\* as the start of the call wrote it
AfterReply_NoCatch(prev, resp) ==
    IF resp.outcome # "returns" \/ resp.isNull THEN prev
    ELSE IF IsUsable(resp) THEN SuccessState(The(resp.data))
    ELSE FailedState(prev, "Failed to fetch transactions")

\* the category state after the reply `resp` has been handled (lines 104-192)
AfterReply(prev, resp) ==
    IF resp.outcome = "throwsError" THEN FailedState(prev, resp.message)
    ELSE IF resp.outcome = "throwsOther" THEN FailedState(prev, "An unknown error occurred")
    ELSE IF resp.isNull THEN FailedState(prev, TypeErrorMessage)
    ELSE IF IsUsable(resp) THEN SuccessState(The(resp.data))
    ELSE FailedState(prev, "Failed to fetch transactions")

\* ---------------------------------------------------------------------
\* fetchTransactions: the call and its completion
\* ---------------------------------------------------------------------
\* query parameters of a call; {} where the caller passes none
NoParams ==
    [page |-> Null, perPage |-> Null, startDate |-> Null, endDate |-> Null,
     partnerBankId |-> Null, merchantId |-> Null, subMerchantId |-> Null,
     search |-> Null]

\* { page: params?.page || 1, perPage: params?.perPage || 10, ...params }
RequestParams(params) ==
    [params EXCEPT !.page = Some(OrDefault(params.page, 1)),
                   !.perPage = Some(OrDefault(params.perPage, 10))]

\* the synchronous part of fetchTransactions(category, params): lines 98-112.
\* h is the hook's [tx, calls]; the result is the hook after the call is issued.
IssueFetch(h, category, params) ==
    [tx    |-> [h.tx EXCEPT ![getCategorySetter(category)] = LoadingState(@)],
     calls |-> Append(h.calls, [category |-> category,
                                type     |-> TRANSACTION_CATEGORIES(category),
                                params   |-> RequestParams(params),
                                outcome  |-> "pending"])]

\* a hook with a request token: a reply is dropped when a later call for
\* the same category has already settled
SettleFetch_DropsStale(h, i, resp) ==
    IF \E j \in DOMAIN h.calls : /\ j > i
                                 /\ h.calls[j].category = h.calls[i].category
                                 /\ h.calls[j].outcome # "pending"
    THEN [tx |-> h.tx, calls |-> [h.calls EXCEPT ![i].outcome = StepKind(resp)]]
    ELSE [tx    |-> [h.tx EXCEPT ![h.calls[i].category] = AfterReply(@, resp)],
          calls |-> [h.calls EXCEPT ![i].outcome = StepKind(resp)]]

\* the part of fetchTransactions after the await: lines 114-192
SettleFetch(h, i, resp) ==
    [tx    |-> [h.tx EXCEPT ![getCategorySetter(h.calls[i].category)] = AfterReply(@, resp)],
     calls |-> [h.calls EXCEPT ![i].outcome = StepKind(resp)]]

Hook == [tx |-> tx, calls |-> calls]

Pending == { i \in DOMAIN calls : calls[i].outcome = "pending" }

\* a caller invokes fetchTransactions(category)
FetchTransactions(category) ==
    /\ Len(calls) < MaxRequests
    /\ LET h == IssueFetch(Hook, category, NoParams)
       IN /\ tx' = h.tx
          /\ calls' = h.calls
    /\ lastStep' = [op |-> "start", category |-> category, seq |-> Len(calls) + 1,
                    resp |-> NoResp]
    /\ UNCHANGED currentCategory
    /\ UNCHANGED <<filterVars, authVars, pageVars, reportVars, serviceVars, statsVars>>

\* refetch(): fetchTransactions(currentCategory)  (lines 196-198)
Refetch ==
    /\ Len(calls) < MaxRequests
    /\ LET h == IssueFetch(Hook, currentCategory, NoParams)
       IN /\ tx' = h.tx
          /\ calls' = h.calls
    /\ lastStep' = [op |-> "start", category |-> currentCategory, seq |-> Len(calls) + 1,
                    resp |-> NoResp]
    /\ UNCHANGED currentCategory
    /\ UNCHANGED <<filterVars, authVars, pageVars, reportVars, serviceVars, statsVars>>

\* a hook without the effect on [currentCategory]
SetCurrentCategory_NoFetch(category) ==
    /\ category # currentCategory
    /\ Len(calls) < MaxRequests
    /\ currentCategory' = category
    /\ lastStep' = [op |-> "switch", category |-> category, seq |-> Len(calls),
                    resp |-> NoResp]
    /\ UNCHANGED <<tx, calls>>
    /\ UNCHANGED <<filterVars, authVars, pageVars, reportVars, serviceVars, statsVars>>

\* setCurrentCategory(category) and the effect on [currentCategory] that
\* follows the render (lines 201-203)
SetCurrentCategory(category) ==
    /\ category # currentCategory
    /\ Len(calls) < MaxRequests
    /\ currentCategory' = category
    /\ LET h == IssueFetch(Hook, category, NoParams)
       IN /\ tx' = h.tx
          /\ calls' = h.calls
    /\ lastStep' = [op |-> "switch", category |-> category, seq |-> Len(calls) + 1,
                    resp |-> NoResp]
    /\ UNCHANGED <<filterVars, authVars, pageVars, reportVars, serviceVars, statsVars>>

\* the service call of request i settles with resp
Resolve(i, resp) ==
    /\ i \in Pending
    /\ LET h == SettleFetch(Hook, i, resp)
       IN /\ tx' = h.tx
          /\ calls' = h.calls
    /\ lastStep' = [op |-> StepKind(resp), category |-> calls[i].category, seq |-> i,
                    resp |-> resp]
    /\ UNCHANGED currentCategory
    /\ UNCHANGED <<filterVars, authVars, pageVars, reportVars, serviceVars, statsVars>>

\* the hook after mount: the effect has issued fetchTransactions(initialCategory)
HookInit ==
    /\ currentCategory = "collection"
    /\ LET h == IssueFetch([tx |-> [c \in Categories |-> initialState], calls |-> <<>>],
                           "collection", NoParams)
       IN /\ tx = h.tx
          /\ calls = h.calls
    /\ lastStep = [op |-> "start", category |-> "collection", seq |-> 1, resp |-> NoResp]

HookNext ==
    \/ \E c \in Categories : FetchTransactions(c)
    \/ Refetch
    \/ \E c \in Categories : SetCurrentCategory(c)
    \/ \E i \in 1..MaxRequests, r \in Responses : Resolve(i, r)


\* ---------------------------------------------------------------------
\* Cascading filter hook (useTransactionFilters): state
\* ---------------------------------------------------------------------
\* total number of option requests issued in one behaviour
MaxOptionCalls == 2

initialFilters ==
    [partnerBankId |-> "all", merchantId |-> "all", subMerchantId |-> "all",
     startDate |-> "", endDate |-> "", transactionType |-> "all",
     searchTerm |-> "", perPage |-> "10"]

createInitialOption == [id |-> "all", name |-> "-- All --", value |-> "all"]

initialFilterData ==
    [partnerBanks |-> <<createInitialOption>>,
     merchants    |-> <<createInitialOption>>,
     subMerchants |-> <<createInitialOption>>,
     loading |-> [partnerBanks |-> FALSE, merchants |-> FALSE, subMerchants |-> FALSE],
     error   |-> [partnerBanks |-> NoError, merchants |-> NoError, subMerchants |-> NoError]]

\* a || b on optional strings: null, undefined and "" are falsy
OrElse(a, b) == IF a = Null \/ a = Some("") THEN b ELSE a

\* the rendering of an optional string as an option field
Str(opt) == IF opt = Null THEN "undefined" ELSE The(opt)

\* an entity as the backend may send it: every field optional
NoEntity ==
    [id |-> Null, uuid |-> Null, xid |-> Null, bankId |-> Null, merchantId |-> Null,
     name |-> Null, bankName |-> Null, businessName |-> Null, merchantName |-> Null,
     title |-> Null]

\* bank => { id, name, value }  (lines 65-80)
BankOption(bank) ==
    LET bankId == OrElse(bank.id, OrElse(bank.uuid, OrElse(bank.xid,
                     OrElse(bank.bankId, bank.name))))
        bankName == OrElse(bank.name, OrElse(bank.bankName, OrElse(bank.title, bankId)))
    IN [id |-> Str(bankId), name |-> Str(bankName), value |-> Str(bankId)]

\* merchant => { id, name, value }  (lines 88-103)
MerchantOption(merchant) ==
    LET merchantId == OrElse(merchant.id, OrElse(merchant.uuid, OrElse(merchant.xid,
                         OrElse(merchant.merchantId, merchant.name))))
        merchantName == OrElse(merchant.businessName, OrElse(merchant.name,
                           OrElse(merchant.merchantName, OrElse(merchant.title, merchantId))))
    IN [id |-> Str(merchantId), name |-> Str(merchantName), value |-> Str(merchantId)]

\* subMerchant => { id, name, value }  (lines 111-115)
SubMerchantOption(subMerchant) ==
    [id |-> Str(subMerchant.id),
     name |-> Str(OrElse(subMerchant.businessName, subMerchant.name)),
     value |-> Str(subMerchant.id)]

convertPartnerBanksToOptions(partnerBanks) ==
    <<createInitialOption>> \o [i \in DOMAIN partnerBanks |-> BankOption(partnerBanks[i])]

convertMerchantsToOptions(merchants) ==
    <<createInitialOption>> \o [i \in DOMAIN merchants |-> MerchantOption(merchants[i])]

convertSubMerchantsToOptions(subMerchants) ==
    <<createInitialOption>> \o [i \in DOMAIN subMerchants |-> SubMerchantOption(subMerchants[i])]

\* what the backend holds
BankIds == {"b1", "b2"}
MerchantIds == {"m1", "m3"}
SubMerchantIds == {"s1"}

ServerPartnerBanks ==
    << [NoEntity EXCEPT !.id = Some("b1"), !.name = Some("Bank One")],
       [NoEntity EXCEPT !.uuid = Some("b2"), !.bankName = Some("Bank Two")] >>

ServerMerchants(partnerBankId) ==
    IF partnerBankId = "b1"
    THEN << [NoEntity EXCEPT !.id = Some("m1"), !.businessName = Some("Shop One"),
                             !.name = Some("shop-1")],
            [NoEntity EXCEPT !.merchantId = Some("m2"), !.merchantName = Some("Shop Two")] >>
    ELSE << [NoEntity EXCEPT !.xid = Some("m3"), !.title = Some("Shop Three")] >>

ServerSubMerchants(merchantId) ==
    IF merchantId = "m1"
    THEN << [NoEntity EXCEPT !.id = Some("s1"), !.name = Some("Branch One")] >>
    ELSE << >>

\* ---------------------------------------------------------------------
\* Filter hook: option fetches
\* ---------------------------------------------------------------------
\* f is the hook's [filters, filterData, inflight, issued]
FilterHook ==
    [filters |-> filters, filterData |-> filterData,
     inflight |-> optInflight, issued |-> optIssued]

IssueOptionRequest(f, kind, arg) ==
    [f EXCEPT !.inflight = @ \cup {[kind |-> kind, arg |-> arg, seq |-> f.issued + 1]},
              !.issued = @ + 1]

\* fetchPartnerBanks up to its await  (lines 120-128)
fetchPartnerBanks(f) ==
    IssueOptionRequest(
        [f EXCEPT !.filterData.loading.partnerBanks = TRUE,
                  !.filterData.error.partnerBanks = NoError],
        "partnerBanks", "")

\* without the early return for 'all': the request is issued for every id
fetchMerchantsByPartnerBank_NoAllGuard(f, partnerBankId) ==
    IssueOptionRequest(
        [f EXCEPT !.filterData.loading.merchants = TRUE,
                  !.filterData.error.merchants = NoError],
        "merchants", partnerBankId)

\* fetchMerchantsByPartnerBank up to its await  (lines 150-168)
fetchMerchantsByPartnerBank(f, partnerBankId) ==
    IF partnerBankId = "all"
    THEN [f EXCEPT !.filterData.merchants = <<createInitialOption>>]
    ELSE IssueOptionRequest(
             [f EXCEPT !.filterData.loading.merchants = TRUE,
                       !.filterData.error.merchants = NoError],
             "merchants", partnerBankId)

\* fetchSubMerchantsByMerchant up to its await  (lines 191-209)
fetchSubMerchantsByMerchant(f, merchantId) ==
    IF merchantId = "all"
    THEN [f EXCEPT !.filterData.subMerchants = <<createInitialOption>>]
    ELSE IssueOptionRequest(
             [f EXCEPT !.filterData.loading.subMerchants = TRUE,
                       !.filterData.error.subMerchants = NoError],
             "subMerchants", merchantId)

\* the code after the await, on success  (lines 129-135, 169-175, 210-216)
OptionsLoaded(fd, req) ==
    CASE req.kind = "partnerBanks" ->
            [fd EXCEPT !.partnerBanks = convertPartnerBanksToOptions(ServerPartnerBanks),
                       !.loading.partnerBanks = FALSE]
      [] req.kind = "merchants" ->
            [fd EXCEPT !.merchants = convertMerchantsToOptions(ServerMerchants(req.arg)),
                       !.loading.merchants = FALSE]
      [] req.kind = "subMerchants" ->
            [fd EXCEPT !.subMerchants = convertSubMerchantsToOptions(ServerSubMerchants(req.arg)),
                       !.loading.subMerchants = FALSE]

\* the catch blocks  (lines 138-146, 178-187, 219-228)
OptionsFailed(fd, req, message) ==
    CASE req.kind = "partnerBanks" ->
            [fd EXCEPT !.loading.partnerBanks = FALSE, !.error.partnerBanks = message]
      [] req.kind = "merchants" ->
            [fd EXCEPT !.merchants = <<createInitialOption>>,
                       !.loading.merchants = FALSE, !.error.merchants = message]
      [] req.kind = "subMerchants" ->
            [fd EXCEPT !.subMerchants = <<createInitialOption>>,
                       !.loading.subMerchants = FALSE, !.error.subMerchants = message]

\* ---------------------------------------------------------------------
\* Filter hook: actions
\* ---------------------------------------------------------------------
\* a setPartnerBank that resets merchantId but forgets subMerchantId
setPartnerBank_KeepsSubMerchant(f, id) ==
    fetchMerchantsByPartnerBank(
        [f EXCEPT !.filters.partnerBankId = id,
                  !.filters.merchantId = "all",
                  !.filterData.merchants = <<createInitialOption>>,
                  !.filterData.subMerchants = <<createInitialOption>>],
        id)

\* setPartnerBank(id)  (lines 237-256)
setPartnerBank(f, id) ==
    fetchMerchantsByPartnerBank(
        [f EXCEPT !.filters.partnerBankId = id,
                  !.filters.merchantId = "all",
                  !.filters.subMerchantId = "all",
                  !.filterData.merchants = <<createInitialOption>>,
                  !.filterData.subMerchants = <<createInitialOption>>],
        id)

\* a setMerchant that changes merchantId but forgets to reset subMerchantId
setMerchant_KeepsSubMerchant(f, id) ==
    fetchSubMerchantsByMerchant(
        [f EXCEPT !.filters.merchantId = id,
                  !.filterData.subMerchants = <<createInitialOption>>],
        id)

\* setMerchant(id)  (lines 258-275)
setMerchant(f, id) ==
    fetchSubMerchantsByMerchant(
        [f EXCEPT !.filters.merchantId = id,
                  !.filters.subMerchantId = "all",
                  !.filterData.subMerchants = <<createInitialOption>>],
        id)

\* setSubMerchant(id)  (lines 277-279)
setSubMerchant(f, id) == [f EXCEPT !.filters.subMerchantId = id]

\* setDateRange(start, end)  (lines 281-283)
setDateRange(f, start, end) == [f EXCEPT !.filters.startDate = start, !.filters.endDate = end]

\* setTransactionType(type)  (lines 285-287)
setTransactionType(f, type) == [f EXCEPT !.filters.transactionType = type]

\* setSearchTerm(term)  (lines 289-291)
setSearchTerm(f, term) == [f EXCEPT !.filters.searchTerm = term]

\* setPerPage(perPage)  (lines 293-295)
setPerPage(f, perPage) == [f EXCEPT !.filters.perPage = perPage]

\* a clearFilters that resets filterData wholesale: setFilterData(initialFilterData)
clearFilters_ResetsFilterData(f) ==
    [f EXCEPT !.filters = initialFilters, !.filterData = initialFilterData]

\* clearFilters()  (lines 297-305)
clearFilters(f) ==
    [f EXCEPT !.filters = initialFilters,
              !.filterData.merchants = <<createInitialOption>>,
              !.filterData.subMerchants = <<createInitialOption>>]

\* the hook's state becomes f, after the hook action `op`
FilterStep(f, op, arg) ==
    /\ f.issued <= MaxOptionCalls
    /\ filters' = f.filters
    /\ filterData' = f.filterData
    /\ optInflight' = f.inflight
    /\ optIssued' = f.issued
    /\ lastFilterOp' = [op |-> op, arg |-> arg]
    /\ UNCHANGED <<hookVars, authVars, pageVars, reportVars, serviceVars, statsVars>>

Dates == {"", "2025-01-01"}
TransactionTypes == {"all", "card"}
SearchTerms == {"", "abc"}
PerPages == {"10", "25"}

SetPartnerBank(id) == FilterStep(setPartnerBank(FilterHook, id), "setPartnerBank", id)
SetMerchant(id) == FilterStep(setMerchant(FilterHook, id), "setMerchant", id)
SetSubMerchant(id) == FilterStep(setSubMerchant(FilterHook, id), "setLeaf", "")
SetDateRange(start, end) == FilterStep(setDateRange(FilterHook, start, end), "setLeaf", "")
SetTransactionType(type) == FilterStep(setTransactionType(FilterHook, type), "setLeaf", "")
SetSearchTerm(term) == FilterStep(setSearchTerm(FilterHook, term), "setLeaf", "")
SetPerPage(perPage) == FilterStep(setPerPage(FilterHook, perPage), "setLeaf", "")
ClearFilters == FilterStep(clearFilters(FilterHook), "clearFilters", "")

\* an option request settles: the service returned the list, or threw
OptionsResolve(req, ok) ==
    /\ req \in optInflight
    /\ optInflight' = optInflight \ {req}
    /\ filterData' = IF ok THEN OptionsLoaded(filterData, req)
                     ELSE OptionsFailed(filterData, req, NetworkError)
    /\ lastFilterOp' = [op |-> IF ok THEN "loaded" ELSE "failed", arg |-> req.kind]
    /\ UNCHANGED <<filters, optIssued>>
    /\ UNCHANGED <<hookVars, authVars, pageVars, reportVars, serviceVars, statsVars>>

\* the hook after mount: the effect has called fetchPartnerBanks  (lines 232-234)
FilterInit ==
    LET f == fetchPartnerBanks([filters |-> initialFilters, filterData |-> initialFilterData,
                                inflight |-> {}, issued |-> 0])
    IN /\ filters = f.filters
       /\ filterData = f.filterData
       /\ optInflight = f.inflight
       /\ optIssued = f.issued
       /\ lastFilterOp = [op |-> "mount", arg |-> ""]

FilterNext ==
    \/ \E id \in BankIds \cup {"all"} : SetPartnerBank(id)
    \/ \E id \in MerchantIds \cup {"all"} : SetMerchant(id)
    \/ \E id \in SubMerchantIds \cup {"all"} : SetSubMerchant(id)
    \/ \E start \in Dates, end \in Dates : SetDateRange(start, end)
    \/ \E type \in TransactionTypes : SetTransactionType(type)
    \/ \E term \in SearchTerms : SetSearchTerm(term)
    \/ \E perPage \in PerPages : SetPerPage(perPage)
    \/ ClearFilters
    \/ \E req \in optInflight, ok \in BOOLEAN : OptionsResolve(req, ok)

\* ---------------------------------------------------------------------
\* Filter panel: TransactionFiltersComponent drives the hook through its
\* selects and its Clear Filters button  (transaction-table.tsx 173-373)
\* ---------------------------------------------------------------------
MaxPanelCalls == 4

\* the values a select offers: one SelectItem per option of the list
OptionValues(options) == {options[i].value : i \in DOMAIN options}

\* disabled={filterData.loading.partnerBanks}  (line 253)
PartnerBankSelectDisabled == filterData.loading.partnerBanks

\* a merchant select that is only disabled while merchants load
MerchantSelectDisabled_LoadingOnly == filterData.loading.merchants

\* disabled={filterData.loading.merchants || filters.partnerBankId === 'all'}
MerchantSelectDisabled == filterData.loading.merchants \/ filters.partnerBankId = "all"

\* disabled={filterData.loading.subMerchants || filters.merchantId === 'all'}
SubMerchantSelectDisabled == filterData.loading.subMerchants \/ filters.merchantId = "all"

\* the hook's state becomes f, after the panel handler `op`
PanelStep(f, op, arg) ==
    /\ f.issued <= MaxPanelCalls
    /\ filters' = f.filters
    /\ filterData' = f.filterData
    /\ optInflight' = f.inflight
    /\ optIssued' = f.issued
    /\ lastFilterOp' = [op |-> op, arg |-> arg]
    /\ UNCHANGED <<hookVars, authVars, pageVars, reportVars, serviceVars, statsVars>>

handlePartnerBankChange(value) ==
    /\ ~PartnerBankSelectDisabled
    /\ value \in OptionValues(filterData.partnerBanks)
    /\ PanelStep(setPartnerBank(FilterHook, value), "setPartnerBank", value)

handleMerchantChange(value) ==
    /\ ~MerchantSelectDisabled
    /\ value \in OptionValues(filterData.merchants)
    /\ PanelStep(setMerchant(FilterHook, value), "setMerchant", value)

handleSubMerchantChange(value) ==
    /\ ~SubMerchantSelectDisabled
    /\ value \in OptionValues(filterData.subMerchants)
    /\ PanelStep(setSubMerchant(FilterHook, value), "setSubMerchant", value)

\* onClick={actions.clearFilters}  (line 368)
ClearFiltersClicked == PanelStep(clearFilters(FilterHook), "clearFilters", "")

PanelValues == {"all", "b1", "b2", "m1", "m2", "m3", "s1"}

PanelNext ==
    \/ \E value \in PanelValues : handlePartnerBankChange(value)
    \/ \E value \in PanelValues : handleMerchantChange(value)
    \/ \E value \in PanelValues : handleSubMerchantChange(value)
    \/ ClearFiltersClicked
    \/ \E req \in optInflight, ok \in BOOLEAN : OptionsResolve(req, ok)

\* ---------------------------------------------------------------------
\* API client: interceptors and token storage
\* ---------------------------------------------------------------------
\* login calls that may await the server at the same time
MaxPendingLogins == 1

Tokens == {"t1", "t2"}

\* the roles of the API's UserRole enum
ApiRoles == {"administrator", "merchant", "submerchant", "partner-bank", "agent"}

\* the user objects the server may put into a login response
ApiUsers == { [id |-> "u-" \o r, role |-> r] : r \in ApiRoles }

\* c is the browser state the client touches: [localToken, sessionToken, location]
Browser == [localToken |-> localToken, sessionToken |-> sessionToken, location |-> location]

\* localStorage.getItem('auth_token') || sessionStorage.getItem('auth_token')
getAuthToken(c) == IF c.localToken # Null THEN c.localToken ELSE c.sessionToken

\* a handleUnauthorized that clears localStorage only
handleUnauthorized_LocalOnly(c) ==
    [c EXCEPT !.localToken = Null, !.location = "/login"]

\* handleUnauthorized  (lines 107-114)
handleUnauthorized(c) ==
    [c EXCEPT !.localToken = Null, !.sessionToken = Null, !.location = "/login"]

\* setAuthToken(token)  (lines 119-123)
setAuthToken(c, token) == [c EXCEPT !.localToken = Some(token)]

\* removeAuthToken  (lines 128-133)
removeAuthToken(c) == [c EXCEPT !.localToken = Null, !.sessionToken = Null]

SecretKeys == {"sk1", "sk2"}

\* the request interceptor (lines 31-38): authorization is the header the
\* request config carries when it reaches the interceptor
requestInterceptor(c, authorization) ==
    IF getAuthToken(c) # Null
    THEN Some("Bearer " \o The(getAuthToken(c)))
    ELSE authorization

\* the Authorization header requestWithSecretKey puts into the request
\* config (lines 184-192)
SecretHeader(secretKey) == Some("Secret " \o secretKey)

\* axios settles a reply as fulfilled exactly for 2xx statuses; status 0 is
\* a transport failure without a response
Fulfilled(reply) == reply.status >= 200 /\ reply.status < 300

\* the response interceptor's error handler  (lines 70-90): the browser
\* state after a reply that axios rejects
onResponseError(c, reply) ==
    IF reply.status = 401 THEN handleUnauthorized(c) ELSE c

\* the browser state after the client has handled the reply to a request
AfterResponse(c, reply) == IF Fulfilled(reply) THEN c ELSE onResponseError(c, reply)

\* the interceptor's error handler ends with Promise.reject(error)  (line 89):
\* the caller's promise rejects exactly when axios did not fulfil the reply
Rejected(reply) == ~Fulfilled(reply)

\* replies without a body of interest
Reply(status) == [status |-> status, hasData |-> FALSE, token |-> Null, user |-> Null]

\* replies to POST /auth/login: ApiResponse<LoginResponse>
LoginReplies ==
    { [status |-> 200, hasData |-> TRUE, token |-> t, user |-> u] :
          t \in {Null} \cup { Some(k) : k \in Tokens },
          u \in {Null} \cup { Some(a) : a \in ApiUsers } }
    \cup { Reply(200), Reply(401), Reply(500), Reply(0) }

\* replies to any other request made through the client
OtherReplies == { Reply(200), Reply(401), Reply(403), Reply(500), Reply(0) }

ErrorMessage(reply) ==
    CASE reply.status = 0 -> NetworkError
      [] reply.status = 401 -> "Request failed with status code 401"
      [] reply.status = 403 -> "Request failed with status code 403"
      [] OTHER -> "Request failed with status code 500"

\* ---------------------------------------------------------------------
\* Auth service and auth store
\* ---------------------------------------------------------------------
\* mapApiUserRole  (lines 33-46)
mapApiUserRole(apiRole) ==
    CASE apiRole = "administrator" -> Some("administrator")
      [] apiRole = "merchant"      -> Some("merchant")
      [] apiRole = "partner-bank"  -> Some("partner-bank")
      [] apiRole = "submerchant"   -> Some("submerchant")
      [] OTHER                     -> Null

\* convertApiUser  (lines 49-58)
convertApiUser(apiUser) == [id |-> apiUser.id, role |-> mapApiUserRole(apiUser.role)]

\* AuthService.isAuthenticated  (banks.service.ts lines 321-328)
isAuthenticated(c) == getAuthToken(c) # Null

\* AuthService.login / partnerBankLogin after the await, for a fulfilled
\* reply: the token is stored when the reply carries one
\* (banks.service.ts lines 160-167 and 191-198)
StoreLoginToken(c, reply) ==
    IF reply.hasData /\ reply.token # Null THEN setAuthToken(c, The(reply.token)) ELSE c

\* AuthService.logout  (banks.service.ts lines 295-315)
authServiceLogout(c) == removeAuthToken(c)

\* a is the store with the browser: the result of login() once the reply
\* has been handled (store lines 92-126); `returned` is login's result
LoginOutcome(a, reply) ==
    IF ~Fulfilled(reply)
    THEN [a EXCEPT !.browser = onResponseError(a.browser, reply),
                   !.authError = ErrorMessage(reply),
                   !.isLoading = FALSE,
                   !.returned = FALSE]
    ELSE IF ~reply.hasData
    THEN \* response.data is undefined: reading response.user throws a TypeError
         [a EXCEPT !.authError = "Cannot read properties of undefined (reading 'user')",
                   !.isLoading = FALSE,
                   !.returned = FALSE]
    ELSE IF reply.user # Null
    THEN [a EXCEPT !.browser = StoreLoginToken(a.browser, reply),
                   !.userData = reply.user,
                   !.user = Some(convertApiUser(The(reply.user))),
                   !.isLoading = FALSE,
                   !.returned = TRUE]
    ELSE [a EXCEPT !.browser = StoreLoginToken(a.browser, reply),
                   !.authError = "Login failed - invalid credentials",
                   !.isLoading = FALSE,
                   !.returned = FALSE]

AuthStore ==
    [user |-> user, isLoading |-> isLoading, authError |-> authError,
     userData |-> userData, browser |-> Browser, sent |-> sentAuthorization,
     returned |-> FALSE]

AuthStep(a, modal, pending, step) ==
    /\ user' = a.user
    /\ isLoading' = a.isLoading
    /\ authError' = a.authError
    /\ userData' = a.userData
    /\ localToken' = a.browser.localToken
    /\ sessionToken' = a.browser.sessionToken
    /\ location' = a.browser.location
    /\ sentAuthorization' = a.sent
    /\ showLogoutModal' = modal
    /\ pendingLogins' = pending
    /\ lastAuthStep' = step
    /\ UNCHANGED <<hookVars, filterVars, pageVars, reportVars, serviceVars, statsVars>>

NoReply == Reply(0)

\* initializeAuth  (store lines 71-87)
InitializeAuth ==
    AuthStep(IF isAuthenticated(Browser) /\ userData # Null
             THEN [AuthStore EXCEPT !.user = Some(convertApiUser(The(userData)))]
             ELSE AuthStore,
             showLogoutModal, pendingLogins,
             [op |-> "initializeAuth", reply |-> NoReply, returned |-> FALSE, rejected |-> FALSE, secretKey |-> ""])

\* login(email, password, userType) up to its await  (store lines 89-103)
LoginStart ==
    /\ pendingLogins < MaxPendingLogins
    /\ AuthStep([AuthStore EXCEPT !.isLoading = TRUE, !.authError = NoError,
                                   !.sent = requestInterceptor(Browser, Null)],
                showLogoutModal, pendingLogins + 1,
                [op |-> "loginStart", reply |-> NoReply, returned |-> FALSE, rejected |-> FALSE, secretKey |-> ""])

\* the server answers a login call and login() returns
LoginReply(reply) ==
    /\ pendingLogins > 0
    /\ LET a == LoginOutcome(AuthStore, reply)
       IN AuthStep(a, showLogoutModal, pendingLogins - 1,
                   [op |-> "login", reply |-> reply, returned |-> a.returned,
                    rejected |-> Rejected(reply), secretKey |-> ""])

\* any other service call made through the client is answered
ApiRequest(reply) ==
    AuthStep([AuthStore EXCEPT !.browser = AfterResponse(@, reply),
                               !.sent = requestInterceptor(Browser, Null)],
             showLogoutModal, pendingLogins,
             [op |-> "request", reply |-> reply, returned |-> FALSE,
              rejected |-> Rejected(reply), secretKey |-> ""])

\* requestWithSecretKey(method, url, secretKey, ...) is sent and answered
\* (lines 178-217)
RequestWithSecretKey(secretKey, reply) ==
    AuthStep([AuthStore EXCEPT
                 !.browser = AfterResponse(@, reply),
                 !.sent = requestInterceptor(Browser, SecretHeader(secretKey))],
             showLogoutModal, pendingLogins,
             [op |-> "secretRequest", reply |-> reply, returned |-> FALSE,
              rejected |-> ~Fulfilled(reply), secretKey |-> secretKey])

\* a logout() that ends the session at once instead of opening the modal
Logout_ClearsAtOnce ==
    AuthStep([AuthStore EXCEPT !.browser = authServiceLogout(@),
                               !.userData = Null,
                               !.user = Null],
             TRUE, pendingLogins,
             [op |-> "logout", reply |-> NoReply, returned |-> FALSE, rejected |-> FALSE, secretKey |-> ""])

\* logout()  (store lines 129-131)
Logout ==
    AuthStep(AuthStore, TRUE, pendingLogins,
             [op |-> "logout", reply |-> NoReply, returned |-> FALSE, rejected |-> FALSE, secretKey |-> ""])

\* a redirect that reads the role after the store's user has been cleared
LogoutRedirect_AfterClear(userRole) == "/login/merchant"

\* the redirect table of setShowLogoutModal  (store lines 147-155)
LogoutRedirect(userRole) ==
    IF userRole = Some("administrator") THEN "/login/admin"
    ELSE IF userRole = Some("partner-bank") THEN "/login/partner-bank"
    ELSE IF userRole = Some("submerchant") THEN "/login/submerchant"
    ELSE "/login/merchant"

\* setShowLogoutModal(show)  (store lines 133-159)
SetShowLogoutModal(show) ==
    IF ~show
    THEN LET userRole == IF user = Null THEN Null ELSE The(user).role
         IN AuthStep([AuthStore EXCEPT
                         !.browser = [authServiceLogout(@) EXCEPT
                                         !.location = LogoutRedirect(userRole)],
                         !.userData = Null,
                         !.user = Null],
                     FALSE, pendingLogins,
                     [op |-> "closeModal", reply |-> NoReply, returned |-> FALSE, rejected |-> FALSE, secretKey |-> ""])
    ELSE AuthStep(AuthStore, TRUE, pendingLogins,
                  [op |-> "openModal", reply |-> NoReply, returned |-> FALSE, rejected |-> FALSE, secretKey |-> ""])

\* clearError()  (store line 161)
ClearError ==
    AuthStep([AuthStore EXCEPT !.authError = NoError], showLogoutModal, pendingLogins,
             [op |-> "clearError", reply |-> NoReply, returned |-> FALSE, rejected |-> FALSE, secretKey |-> ""])

\* a first visit: empty store and localStorage
AuthFirstVisit(storedSessionToken) ==
    /\ user = Null
    /\ isLoading = FALSE
    /\ authError = NoError
    /\ showLogoutModal = FALSE
    /\ localToken = Null
    /\ sessionToken = storedSessionToken
    /\ userData = Null
    /\ location = "app"
    /\ pendingLogins = 0
    /\ sentAuthorization = Null
    /\ lastAuthStep = [op |-> "init", reply |-> NoReply, returned |-> FALSE, rejected |-> FALSE, secretKey |-> ""]

\* sessionStorage may hold a token on arrival (README line 252: the bearer
\* token is kept in localStorage/sessionStorage)
AuthInit == \E t \in {Null, Some("t1")} : AuthFirstVisit(t)

AuthNext ==
    \/ InitializeAuth
    \/ LoginStart
    \/ \E reply \in LoginReplies : LoginReply(reply)
    \/ \E reply \in OtherReplies : ApiRequest(reply)
    \/ \E k \in SecretKeys, reply \in OtherReplies : RequestWithSecretKey(k, reply)
    \/ Logout
    \/ \E show \in BOOLEAN : SetShowLogoutModal(show)
    \/ ClearError

\* ---------------------------------------------------------------------
\* Transactions page (TransactionsPage)
\* ---------------------------------------------------------------------
\* total number of fetchTransactions calls in one behaviour of the page
MaxPageRequests == 5

\* the repository holds two versions of the page
PageVariants == {"page.tsx", "part_005"}

SearchValues == {"", "a", "ab"}

\* parseInt on the per-page strings; NaN is falsy like 0
ParseInt(str) ==
    CASE str = "10" -> 10
      [] str = "25" -> 25
      [] str = "50" -> 50
      [] OTHER -> 0

\* ...(value && { key: value }) for strings
Truthy(str) == IF str = "" THEN Null ELSE Some(str)

\* ...(id !== "all" && { key: id })
NotAll(id) == IF id = "all" THEN Null ELSE Some(id)

\* p is the page: its state, the hook it uses and the hook's current category
Page ==
    [variant |-> pageVariant, currentPage |-> currentPage, searchQuery |-> searchQuery,
     debouncedSearch |-> debouncedSearch, currentFilters |-> currentFilters,
     category |-> currentCategory, hook |-> Hook]

\* queryParams of the fetch effect (page.tsx lines 99-108, part_005 lines 245-256)
QueryParams(p) ==
    IF p.variant = "page.tsx"
    THEN [page |-> Some(p.currentPage),
          perPage |-> Some(OrDefault(Some(ParseInt(p.currentFilters.perPage)), 10)),
          startDate |-> Truthy(p.currentFilters.startDate),
          endDate |-> Truthy(p.currentFilters.endDate),
          partnerBankId |-> NotAll(p.currentFilters.partnerBankId),
          merchantId |-> NotAll(p.currentFilters.merchantId),
          subMerchantId |-> NotAll(p.currentFilters.subMerchantId),
          search |-> Truthy(p.debouncedSearch)]
    ELSE [NoParams EXCEPT
             !.page = Some(p.currentPage),
             !.perPage = Some(OrDefault(Some(ParseInt(p.currentFilters.perPage)), 10)),
             !.partnerBankId = NotAll(p.currentFilters.partnerBankId),
             !.search = Truthy(p.debouncedSearch)]

\* the body of the fetch effect: fetchTransactions(currentCategory, queryParams)
FetchEffect(p) == [p EXCEPT !.hook = IssueFetch(@, p.category, QueryParams(p))]

\* the dependency list of the fetch effect, compared between the render p
\* and the next render q; newFilters tells that setCurrentFilters installed
\* a new object.  page.tsx lists currentFilters itself (lines 111-117),
\* part_005 lists currentFilters.partnerBankId and .perPage (lines 259-267)
FetchDepsChanged(p, q, newFilters) ==
    \/ p.category # q.category
    \/ p.currentPage # q.currentPage
    \/ p.debouncedSearch # q.debouncedSearch
    \/ IF p.variant = "page.tsx"
       THEN newFilters
       ELSE \/ p.currentFilters.partnerBankId # q.currentFilters.partnerBankId
            \/ p.currentFilters.perPage # q.currentFilters.perPage

\* the render that follows a state change, with its fetch effect
Render(p, q, newFilters) ==
    IF FetchDepsChanged(p, q, newFilters) THEN FetchEffect(q) ELSE q

\* handleSearchChange(search)  (page.tsx lines 129-132, part_005 lines 279-282)
\* and the render after it
handleSearchChange(p, search) ==
    Render(p, [p EXCEPT !.searchQuery = search, !.currentFilters.searchTerm = search], TRUE)

\* the timeout callback setDebouncedSearch(searchQuery) of the debounce
\* effect and the renders after it: the fetch effect and the page-reset
\* effect (debouncedSearch !== "" => setCurrentPage(1)) both run after the
\* first render; a second render follows when currentPage changed
debounceFires(p) ==
    LET q == [p EXCEPT !.debouncedSearch = p.searchQuery]
        first == Render(p, q, FALSE)
        reset == IF q.debouncedSearch # p.debouncedSearch /\ q.debouncedSearch # ""
                 THEN [first EXCEPT !.currentPage = 1]
                 ELSE first
    IN Render(first, reset, FALSE)

\* onPageChange = setCurrentPage and the render after it
onPageChange(p, page) == Render(p, [p EXCEPT !.currentPage = page], FALSE)

\* loading={currentData.loading}
PageLoading == tx[currentCategory].loading

\* totalPages={currentData.meta?.totalPages || 1}
PageTotalPages ==
    IF tx[currentCategory].meta = Null THEN 1
    ELSE OrDefault(Some(The(tx[currentCategory].meta).totalPages), 1)

PageStep(q, timer, typed, step) ==
    /\ Len(q.hook.calls) <= MaxPageRequests
    /\ currentPage' = q.currentPage
    /\ searchQuery' = q.searchQuery
    /\ debouncedSearch' = q.debouncedSearch
    /\ currentFilters' = q.currentFilters
    /\ debounceTimer' = timer
    /\ typing' = typed
    /\ lastPageStep' = step
    /\ tx' = q.hook.tx
    /\ calls' = q.hook.calls
    /\ lastStep' = IF Len(q.hook.calls) > Len(calls)
                   THEN [op |-> "start", category |-> q.category,
                         seq |-> Len(q.hook.calls), resp |-> NoResp]
                   ELSE lastStep
    /\ currentCategory' = q.category
    /\ UNCHANGED pageVariant
    /\ UNCHANGED <<filterVars, authVars, reportVars, serviceVars, statsVars>>

\* the search input changes (transaction-table.tsx lines 84-91: disabled
\* while loading); the debounce effect re-arms its timer
HandleSearchChange(search) ==
    /\ ~PageLoading
    /\ search # searchQuery
    /\ PageStep(handleSearchChange(Page, search), TRUE, TRUE,
                [op |-> "search", typed |-> TRUE])

\* 500 ms have passed since the debounce effect last ran
DebounceFires ==
    /\ debounceTimer
    /\ PageStep(debounceFires(Page), FALSE, FALSE, [op |-> "debounce", typed |-> typing])

\* the "Previous page" button (transaction-table.tsx lines 125-129),
\* rendered when not loading and disabled on the first page
PreviousPage ==
    /\ ~PageLoading
    /\ currentPage > 1
    /\ PageStep(onPageChange(Page, currentPage - 1), debounceTimer, typing,
                [op |-> "page", typed |-> typing])

\* the "Next page" button (transaction-table.tsx lines 135-139), rendered
\* when not loading and disabled on the last page
NextPage ==
    /\ ~PageLoading
    /\ currentPage < PageTotalPages
    /\ PageStep(onPageChange(Page, currentPage + 1), debounceTimer, typing,
                [op |-> "page", typed |-> typing])

\* the page's useState values at mount, with the debounce timer armed by
\* the first run of the debounce effect
PageMounted(variant) ==
    /\ pageVariant = variant
    /\ currentPage = 1
    /\ searchQuery = ""
    /\ debouncedSearch = ""
    /\ debounceTimer = TRUE
    /\ currentFilters = initialFilters
    /\ typing = FALSE
    /\ lastPageStep = [op |-> "mount", typed |-> FALSE]

\* the hook and the page after the mount effects: the hook's own effect
\* and the page's fetch effect have called fetchTransactions; the filter
\* component's effect has called handleFiltersChange, after which page.tsx
\* (new currentFilters object) runs the fetch effect once more
PageInit ==
    \E variant \in PageVariants :
        /\ PageMounted(variant)
        /\ currentCategory = "collection"
        /\ LET p0 == [variant |-> variant, currentPage |-> 1, searchQuery |-> "",
                      debouncedSearch |-> "", currentFilters |-> initialFilters,
                      category |-> "collection",
                      hook |-> IssueFetch([tx |-> [c \in Categories |-> initialState],
                                           calls |-> <<>>], "collection", NoParams)]
               p == Render(FetchEffect(p0), FetchEffect(p0), TRUE)
           IN /\ tx = p.hook.tx
              /\ calls = p.hook.calls
              /\ lastStep = [op |-> "start", category |-> "collection",
                             seq |-> Len(p.hook.calls), resp |-> NoResp]

\* the replies the page's requests draw from
PageReplies ==
    { Envelope(TRUE, "", Some(Nested(A1, Some(2), Some(25), Some(57), Some(3)))),
      Envelope(FALSE, "error", Null) }

PageNext ==
    \/ \E search \in SearchValues : HandleSearchChange(search)
    \/ DebounceFires
    \/ PreviousPage
    \/ NextPage
    \/ \E i \in 1..MaxPageRequests, r \in PageReplies : Resolve(i, r)

\* ---------------------------------------------------------------------
\* Reports service and the page's filter and download handlers
\* ---------------------------------------------------------------------
\* the keys a report or export request may carry
ReportKeys == {"partnerBankId", "merchantId", "subMerchantId", "startDate", "endDate",
               "transactionType", "searchTerm", "perPage", "search", "format"}

NoReportParams == [k \in ReportKeys |-> Null]

\* a Partial<EnhancedTransactionFilters> with every key of f present
AsPartial(f) == [k \in ReportKeys |-> IF k \in DOMAIN f THEN Some(f[k]) ELSE Null]

\* filters.key && filters.key !== 'all'
SetAndNotAll(opt) == opt # Null /\ opt # Some("") /\ opt # Some("all")

\* filters.key && ...
SetAndTruthy(opt) == opt # Null /\ opt # Some("")

\* an object literal entry ...(cond && { key: value }) written after
\* ...filters: it overwrites the spread value when cond holds
SpreadOver(below, cond, value) == IF cond THEN value ELSE below

\* the params object of exportTransactions and downloadTransactionFile
\* (part_002 lines 1123-1133 and 1220-1230): { ...filters, format, ... }
ExportParams(f, format) ==
    [NoReportParams EXCEPT
        !.searchTerm = f.searchTerm,
        !.perPage = f.perPage,
        !.format = Some(format),
        !.partnerBankId = SpreadOver(f.partnerBankId, SetAndNotAll(f.partnerBankId), f.partnerBankId),
        !.merchantId = SpreadOver(f.merchantId, SetAndNotAll(f.merchantId), f.merchantId),
        !.subMerchantId = SpreadOver(f.subMerchantId, SetAndNotAll(f.subMerchantId), f.subMerchantId),
        !.startDate = SpreadOver(f.startDate, SetAndTruthy(f.startDate), f.startDate),
        !.endDate = SpreadOver(f.endDate, SetAndTruthy(f.endDate), f.endDate),
        !.transactionType = SpreadOver(f.transactionType, SetAndNotAll(f.transactionType),
                                       f.transactionType)]

\* the params object of generateTransactionReport (part_002 lines 1187-1196)
ReportParams(f) == [ExportParams(f, "csv") EXCEPT !.format = Null]

\* downloadParams of the second page version (part_005 lines 295-304)
DownloadParams(f) ==
    [NoReportParams EXCEPT
        !.perPage = Some("10000"),
        !.startDate = Truthy(f.startDate),
        !.endDate = Truthy(f.endDate),
        !.partnerBankId = NotAll(f.partnerBankId),
        !.merchantId = NotAll(f.merchantId),
        !.subMerchantId = NotAll(f.subMerchantId),
        !.transactionType = NotAll(f.transactionType),
        !.search = Truthy(f.searchTerm)]

\* the request handleDownloadReport sends (page.tsx line 142, part_005 line 307)
DownloadRequest(variant, f) ==
    IF variant = "page.tsx"
    THEN [method |-> "downloadTransactionFile", params |-> ExportParams(AsPartial(f), "csv")]
    ELSE [method |-> "getTransactions", params |-> DownloadParams(f)]

\* handleFiltersChange(newFilters) (page.tsx lines 92-95) and the render after it
handleFiltersChange(p, newFilters) ==
    Render(p, [p EXCEPT !.currentFilters = newFilters, !.currentPage = 1], TRUE)

ExportFormats == {"csv", "pdf"}

\* the filters the filter component can hand to the page: a merchant is
\* chosen only under a partner bank
PageFilters ==
    { f \in [partnerBankId : {"all", "b1"}, merchantId : {"all", "m1"},
             subMerchantId : {"all"}, startDate : {""}, endDate : {""},
             transactionType : {"all", "collection"}, searchTerm : {""},
             perPage : {"10"}] :
        f.partnerBankId = "all" => f.merchantId = "all" }

\* the filters a caller of the reports service may pass
ServiceFilters == { AsPartial(f) : f \in PageFilters } \cup {NoReportParams}

ReportStep(downloading, success, report) ==
    /\ isDownloading' = downloading
    /\ downloadSuccess' = success
    /\ lastReport' = report
    /\ UNCHANGED <<hookVars, filterVars, authVars, pageVars, serviceVars, statsVars>>

\* the filter component's effect calls onFiltersChange(filters)
\* (transaction-table.tsx lines 181-183)
HandleFiltersChange(newFilters) ==
    PageStep(handleFiltersChange(Page, newFilters), debounceTimer, typing,
             [op |-> "filters", typed |-> typing])

\* handleDownloadReport up to its await (page.tsx lines 134-142)
HandleDownloadReport ==
    /\ ~isDownloading
    /\ ReportStep(TRUE, FALSE, DownloadRequest(pageVariant, currentFilters))

\* handleDownloadReport after its await (page.tsx lines 144-158,
\* part_005 lines 309-371): an empty result ends the second version early
DownloadSettles(outcome) ==
    /\ isDownloading
    /\ ReportStep(FALSE,
                  IF outcome = "ok" \/ (outcome = "empty" /\ pageVariant = "page.tsx")
                  THEN TRUE ELSE downloadSuccess,
                  lastReport)

\* setTimeout(() => setDownloadSuccess(false), 3000)
HideDownloadSuccess ==
    /\ downloadSuccess
    /\ ReportStep(isDownloading, FALSE, lastReport)

\* reportsService.exportTransactions(filters, format)  (part_002 lines 1115-1141)
ExportTransactions(f, format) ==
    ReportStep(isDownloading, downloadSuccess,
               [method |-> "exportTransactions", params |-> ExportParams(f, format)])

\* reportsService.generateTransactionReport(filters)  (part_002 lines 1148-1204)
GenerateTransactionReport(f) ==
    ReportStep(isDownloading, downloadSuccess,
               [method |-> "generateTransactionReport", params |-> ReportParams(f)])

\* reportsService.downloadTransactionFile(filters, format)  (part_002 lines 1212-1240)
DownloadTransactionFile(f, format) ==
    ReportStep(isDownloading, downloadSuccess,
               [method |-> "downloadTransactionFile", params |-> ExportParams(f, format)])

\* no report requested yet
ReportInit ==
    /\ isDownloading = FALSE
    /\ downloadSuccess = FALSE
    /\ lastReport = [method |-> "none", params |-> NoReportParams]

ReportNext ==
    \/ \E f \in PageFilters : HandleFiltersChange(f)
    \/ HandleDownloadReport
    \/ \E outcome \in {"ok", "empty", "failed"} : DownloadSettles(outcome)
    \/ HideDownloadSuccess
    \/ \E f \in ServiceFilters, format \in ExportFormats : ExportTransactions(f, format)
    \/ \E f \in ServiceFilters : GenerateTransactionReport(f)
    \/ \E f \in ServiceFilters, format \in ExportFormats : DownloadTransactionFile(f, format)

\* ---------------------------------------------------------------------
\* Service layer (BankService, TransactionService)
\* ---------------------------------------------------------------------
\* number of service calls in one behaviour
MaxServiceCalls == 3

ServiceMethods == {"getPartnerBanks", "getTransactions", "getCategorizedTransactions"}

\* the endpoint of the request a method starts with
FirstEndpoint(method) ==
    IF method = "getPartnerBanks" THEN "/banks/partners" ELSE "/transactions"

\* a getPartnerBanks without its catch-and-fallback
FollowUpEndpoint_None(method, requests) == Null

\* the request a method issues after its latest one has settled, if any:
\* getPartnerBanks falls back to /partner-banks when /banks/partners fails
\* (banks.service.ts lines 50-63); the other methods rethrow (e.g.
\* transactions.service.ts lines 132-135)
FollowUpEndpoint(method, requests) ==
    IF /\ method = "getPartnerBanks"
       /\ Len(requests) = 1
       /\ ~requests[1].fulfilled
    THEN Some("/partner-banks")
    ELSE Null

\* a service method is invoked and issues its first request
ServiceInvoke(method) ==
    /\ svcActive = Null
    /\ Len(svcLog) < MaxServiceCalls
    /\ svcActive' = Some([method |-> method, requests |-> <<>>,
                          pending |-> FirstEndpoint(method)])
    /\ UNCHANGED svcLog
    /\ UNCHANGED <<hookVars, filterVars, authVars, pageVars, reportVars, statsVars>>

\* the pending request settles: the method issues a follow-up request,
\* or returns (fulfilled) or throws (rejected)
ServiceReply(fulfilled) ==
    /\ svcActive # Null
    /\ LET call == The(svcActive)
           requests == Append(call.requests,
                              [endpoint |-> call.pending, fulfilled |-> fulfilled])
           next == FollowUpEndpoint(call.method, requests)
       IN IF next # Null
          THEN /\ svcActive' = Some([call EXCEPT !.requests = requests,
                                                 !.pending = The(next)])
               /\ UNCHANGED svcLog
          ELSE /\ svcActive' = Null
               /\ svcLog' = Append(svcLog,
                                   [method |-> call.method, requests |-> requests,
                                    outcome |-> IF fulfilled THEN "returned" ELSE "threw"])
    /\ UNCHANGED <<hookVars, filterVars, authVars, pageVars, reportVars, statsVars>>

ServiceInit ==
    /\ svcActive = Null
    /\ svcLog = <<>>

ServiceNext ==
    \/ \E method \in ServiceMethods : ServiceInvoke(method)
    \/ \E fulfilled \in BOOLEAN : ServiceReply(fulfilled)

\* ---------------------------------------------------------------------
\* Transaction statistics hook (useTransactionStats, hook file lines 221-280)
\* ---------------------------------------------------------------------
\* the query of getTransactionAnalytics; every field absent when the
\* service is called without params
NoStatsParams ==
    [startDate |-> Null, endDate |-> Null, partnerBankId |-> Null,
     merchantId |-> Null, subMerchantId |-> Null]

\* the object the page hands to useTransactionStats (page.tsx lines 62-68,
\* part_005 lines 207-213)
StatsArgs(f) ==
    [startDate |-> Some(f.startDate), endDate |-> Some(f.endDate),
     partnerBankId |-> Some(f.partnerBankId), merchantId |-> Some(f.merchantId),
     subMerchantId |-> Some(f.subMerchantId)]

\* the params of transactionService.getTransactionAnalytics() in fetchStats
\* (line 241): the hook declares no parameter and passes none on
StatsQuery(args) == NoStatsParams

\* fetchStats up to its await (lines 236-241)
fetchStats(st, args) ==
    [stats |-> [st.stats EXCEPT !.loading = TRUE, !.error = NoError],
     calls |-> Append(st.calls, [params |-> StatsQuery(args), outcome |-> "pending"])]

\* fetchStats after its await (lines 245-270)
StatsSettled(st, i, ok) ==
    [stats |-> IF ok
               THEN [loading |-> FALSE, error |-> NoError, figures |-> Some(st.calls[i].params)]
               ELSE [st.stats EXCEPT !.loading = FALSE, !.error = NetworkError],
     calls |-> [st.calls EXCEPT ![i].outcome = IF ok THEN "success" ELSE "exception"]]

\* the analytics request i settles
StatsSettles(i, ok) ==
    /\ i \in DOMAIN statsCalls
    /\ statsCalls[i].outcome = "pending"
    /\ LET st == StatsSettled([stats |-> stats, calls |-> statsCalls], i, ok)
       IN /\ stats' = st.stats
          /\ statsCalls' = st.calls
    /\ UNCHANGED <<hookVars, filterVars, authVars, pageVars, reportVars, serviceVars>>

\* the hook after mount: the effect on [fetchStats] has run once
\* (lines 273-275); fetchStats has no dependencies, so it never runs again
StatsInit ==
    LET st == fetchStats([stats |-> [loading |-> FALSE, error |-> NoError, figures |-> Null],
                          calls |-> <<>>], StatsArgs(initialFilters))
    IN /\ stats = st.stats
       /\ statsCalls = st.calls

\* ---------------------------------------------------------------------
\* Transactions page: the table's controls and the filter component
\* ---------------------------------------------------------------------
\* rows the backend holds for each category
ServerRows == 20

CeilDiv(n, d) == (n + d - 1) \div d

\* the backend's page of rows for a request: its pagination follows the
\* request's page and perPage
TableReply(params) ==
    Envelope(TRUE, "",
             Some(Nested(A1, params.page, params.perPage, Some(ServerRows),
                         Some(CeilDiv(ServerRows, The(params.perPage))))))

\* the page's request i settles: the backend's page, or a failure body
TableResolve(i, ok) ==
    /\ i \in Pending
    /\ Resolve(i, IF ok THEN TableReply(calls[i].params) ELSE Envelope(FALSE, "error", Null))

\* onPerPageChange: setCurrentFilters(prev => ({ ...prev, perPage })) and
\* the render after it (page.tsx line 236)
onPerPageChange(p, perPage) ==
    Render(p, [p EXCEPT !.currentFilters.perPage = perPage], TRUE)

\* onTransactionTypeChange = setTransactionType and the renders after it:
\* the effects on [transactionType] call setCurrentCategory(type) and
\* setCurrentPage(1) (page.tsx lines 71-73, 120-123); in the next render
\* the hook's effect on [currentCategory] fetches the category without
\* params (hook lines 201-203) and the page's fetch effect fetches it with
\* the query params
onTransactionTypeChange(p, type) ==
    LET q == [p EXCEPT !.category = type, !.currentPage = 1]
    IN FetchEffect([q EXCEPT !.hook = IssueFetch(@, type, NoParams)])

\* the per-page select (transaction-table.tsx lines 71-80: disabled while
\* loading)
OnPerPageChange(perPage) ==
    /\ ~PageLoading
    /\ perPage # currentFilters.perPage
    /\ PageStep(onPerPageChange(Page, perPage), debounceTimer, typing,
                [op |-> "perPage", typed |-> typing])

\* the category tabs (transaction-table.tsx lines 55-66: disabled while
\* loading)
OnTransactionTypeChange(type) ==
    /\ ~PageLoading
    /\ type # currentCategory
    /\ PageStep(onTransactionTypeChange(Page, type), debounceTimer, typing,
                [op |-> "tab", typed |-> typing])

\* the options of the per-page select exercised here
PerPageOptions == {"10", "25"}

\* the filters the filter component hands to the page: perPage and
\* searchTerm keep the filter hook's defaults, no control of the component
\* calls setPerPage or setSearchTerm
PanelFilters ==
    { [initialFilters EXCEPT !.partnerBankId = b, !.startDate = d] :
        b \in {"all", "b1"}, d \in {"", "2025-01-01"} }

TransactionsPageNext ==
    \/ \E f \in {g \in PanelFilters : g.startDate = ""} : HandleFiltersChange(f)
    \/ \E perPage \in PerPageOptions : OnPerPageChange(perPage)
    \/ \E type \in {"collection", "payout"} : OnTransactionTypeChange(type)
    \/ \E search \in {"", "a"} : HandleSearchChange(search)
    \/ DebounceFires
    \/ PreviousPage
    \/ NextPage
    \/ \E i \in 1..MaxPageRequests : TableResolve(i, TRUE)

\* the statistics cards next to the filter component
StatsNext ==
    \/ \E f \in PanelFilters : HandleFiltersChange(f)
    \/ \E i \in 1..MaxPageRequests, ok \in BOOLEAN : TableResolve(i, ok)
    \/ \E i \in 1..1, ok \in BOOLEAN : StatsSettles(i, ok)

vars == <<hookVars, filterVars, authVars, pageVars, reportVars, serviceVars, statsVars>>

Init == HookInit /\ FilterInit /\ AuthFirstVisit(Null) /\ PageMounted("page.tsx") /\ ReportInit /\ ServiceInit /\ StatsInit

\* the categorized-transactions hook alone
HookSpec == Init /\ [][HookNext]_vars

\* the filter hook alone
FilterSpec == Init /\ [][FilterNext]_vars

\* the API client with the auth store
InitOnArrival == HookInit /\ FilterInit /\ AuthInit /\ PageMounted("page.tsx") /\ ReportInit /\ ServiceInit /\ StatsInit
AuthSpec == InitOnArrival /\ [][AuthNext]_vars

\* the transactions page with the hook it uses
InitPage == PageInit /\ FilterInit /\ AuthFirstVisit(Null) /\ ReportInit /\ ServiceInit /\ StatsInit
PageSpec == InitPage /\ [][PageNext]_vars

\* the page's filter and download handlers with the reports service
ReportSpec == InitPage /\ [][ReportNext]_vars

\* the service layer alone
ServiceSpec == Init /\ [][ServiceNext]_vars

PanelSpec == Init /\ [][PanelNext]_vars

TransactionsPageSpec == InitPage /\ [][TransactionsPageNext]_vars

StatsSpec == InitPage /\ [][StatsNext]_vars

\* ---------------------------------------------------------------------
\* Claims about the categorized-transactions hook (HookSpec)
\* ---------------------------------------------------------------------
Settled == lastStep.op \in {"success", "failure", "exception"}

\* C1: every step of a fetch for category A (start, successful completion,
\* unsuccessful envelope, thrown exception) leaves the state {data, meta,
\* loading, error} of every other category B unchanged.
C1_FetchLeavesOtherCategories ==
    [][\A b \in Categories : b # lastStep'.category => tx'[b] = tx[b]]_vars

\* a fetch for one category has completed while another category holds data
C1_Witness ==
    /\ lastStep.op = "success"
    /\ \E b \in Categories : b # lastStep.category /\ tx[b].data # <<>>

\* C2: when two calls for one category overlap and both resolve successfully,
\* data and meta are those of the reply that resolved last, whichever call
\* was issued first; no reply is discarded.
C2_LastResolvedWins ==
    lastStep.op = "success" =>
        LET written == SuccessState(The(lastStep.resp.data))
        IN /\ tx[lastStep.category].data = written.data
           /\ tx[lastStep.category].meta = written.meta

\* the call issued first resolves last, after the later call succeeded with
\* a different array, and its array is the one the category holds
C2_Witness ==
    /\ lastStep.op = "success"
    /\ \E j \in DOMAIN calls :
          /\ j > lastStep.seq
          /\ calls[j].category = lastStep.category
          /\ calls[j].outcome = "success"
    /\ tx[lastStep.category].data = A11

IsNestedReply == lastStep.op = "success" /\ The(lastStep.resp.data).data # Null

\* C8 as stated: for a nested-shape reply and every value of lastPage,
\* meta.totalPages equals lastPage.
C8_TotalPagesIsLastPage ==
    (IsNestedReply /\ The(lastStep.resp.data).lastPage # Null) =>
        The(tx[lastStep.category].meta).totalPages = The(The(lastStep.resp.data).lastPage)

\* C8 amended: for a nested-shape reply, meta.totalPages equals lastPage when
\* lastPage is a non-zero number, and is 1 when lastPage is 0 or missing.
C8_TotalPagesIsLastPageOrOne ==
    IsNestedReply =>
        LET lastPage == The(lastStep.resp.data).lastPage
            totalPages == The(tx[lastStep.category].meta).totalPages
        IN IF lastPage = Null \/ lastPage = Some(0)
           THEN totalPages = 1
           ELSE totalPages = The(lastPage)

C8_Witness ==
    /\ IsNestedReply
    /\ The(lastStep.resp.data).lastPage = Some(3)
    /\ The(tx[lastStep.category].meta).totalPages = 3

\* the reply was returned (not thrown) and holds no array anywhere
HoldsNoArray(resp) ==
    /\ resp.outcome = "returns"
    /\ \/ resp.isNull
       \/ resp.data = Null
       \/ LET rd == The(resp.data)
          IN /\ rd.self = Null /\ rd.data = Null /\ rd.items = Null
             /\ rd.transactions = Null /\ rd.others = <<>>

\* C9 as stated: after any returned reply that holds no array (a reply with
\* no data or no success flag included) the category ends with data = [].
C9_NoArrayGivesEmptyData ==
    (Settled /\ HoldsNoArray(lastStep.resp)) => tx[lastStep.category].data = <<>>

\* C9 amended: a returned reply that holds no array never makes
\* fetchTransactions throw; when it is a success envelope with a payload the
\* category ends with data = [], and when it has no payload or no success
\* flag the category's data is left as it was before the reply.
C9_NoArrayEmptyOrRetained ==
    [][(lastStep'.op \in {"success", "failure", "exception"} /\ HoldsNoArray(lastStep'.resp)) =>
          /\ tx'[lastStep'.category].loading = FALSE
          /\ tx'[lastStep'.category].data =
                IF IsUsable(lastStep'.resp) /\ ~lastStep'.resp.isNull
                THEN <<>>
                ELSE tx[lastStep'.category].data]_vars

\* a reply without payload arrived for a category that holds cached rows
C9_Witness ==
    /\ lastStep.op = "failure"
    /\ HoldsNoArray(lastStep.resp)
    /\ tx[lastStep.category].data # <<>>
    /\ tx[lastStep.category].error = "Failed to fetch transactions"

\* ---------------------------------------------------------------------
\* Claims about the cascading filter hook (FilterSpec)
\* ---------------------------------------------------------------------
AllSentinel == <<[id |-> "all", name |-> "-- All --", value |-> "all"]>>

C4_SetPartnerBankAllResets ==
    [][(lastFilterOp'.op = "setPartnerBank" /\ lastFilterOp'.arg = "all") =>
          /\ filters'.partnerBankId = "all"
          /\ filters'.merchantId = "all"
          /\ filters'.subMerchantId = "all"
          /\ filterData'.merchants = AllSentinel
          /\ filterData'.subMerchants = AllSentinel
          /\ optInflight' = optInflight
          /\ optIssued' = optIssued]_vars

\* setPartnerBank("all") has acted in a state reached through a bank
\* selection (the merchant request of that selection is still unresolved)
C4_Witness ==
    /\ lastFilterOp = [op |-> "setPartnerBank", arg |-> "all"]
    /\ \E r \in optInflight : r.kind = "merchants"
    /\ filters.partnerBankId = "all"

\* C5: clearFilters(), from any state, sets every filter field to its
\* default and both dependent option lists to the sentinel, leaves the
\* partner-bank option list, the loading flags and the error strings
\* unchanged and issues no request; no step after mount requests the
\* partner-bank list again.
C5_ClearFiltersRestoresDefaults ==
    [][/\ lastFilterOp'.op = "clearFilters" =>
             /\ filters' = [partnerBankId |-> "all", merchantId |-> "all",
                            subMerchantId |-> "all", startDate |-> "", endDate |-> "",
                            transactionType |-> "all", searchTerm |-> "", perPage |-> "10"]
             /\ filterData'.merchants = AllSentinel
             /\ filterData'.subMerchants = AllSentinel
             /\ filterData'.partnerBanks = filterData.partnerBanks
             /\ filterData'.loading = filterData.loading
             /\ filterData'.error = filterData.error
             /\ optInflight' = optInflight
             /\ optIssued' = optIssued
       /\ \A r \in optInflight' \ optInflight : r.kind # "partnerBanks"]_vars

\* clearFilters has acted with the partner banks loaded and a merchant
\* request unresolved
C5_Witness ==
    /\ lastFilterOp.op = "clearFilters"
    /\ Len(filterData.partnerBanks) = 3
    /\ filterData.loading.merchants
    /\ filters.perPage = "10"

\* ---------------------------------------------------------------------
\* Claims about the API client and the auth store (AuthSpec)
\* ---------------------------------------------------------------------
\* C7: a request through the API client that is answered with HTTP 401
\* removes the auth token from localStorage and sessionStorage, navigates to
\* /login and is still rejected to the caller; a reply with any other status
\* removes nothing and causes no navigation.
C7_UnauthorizedClearsTokens ==
    [][lastAuthStep'.op \in {"request", "login"} =>
          IF lastAuthStep'.reply.status = 401
          THEN /\ localToken' = Null
               /\ sessionToken' = Null
               /\ location' = "/login"
               /\ lastAuthStep'.rejected
          ELSE /\ localToken # Null => localToken' # Null
               /\ sessionToken' = sessionToken
               /\ location' = location]_vars

\* a logged-in session (stored user snapshot) has been answered with 401
C7_Witness ==
    /\ lastAuthStep.op = "request"
    /\ lastAuthStep.reply.status = 401
    /\ userData # Null
    /\ localToken = Null /\ sessionToken = Null
    /\ location = "/login"

\* the login reply carries a user
CarriesUser(reply) == Fulfilled(reply) /\ reply.hasData /\ reply.user # Null

\* C10: login returns true exactly when the reply carries a user; then the
\* store's user is set, the user snapshot and the token are in client
\* storage, isLoading is false and error is null; otherwise it returns false
\* with error non-null, isLoading false and the store's user unchanged.
C10_LoginResult ==
    [][lastAuthStep'.op = "login" =>
          /\ lastAuthStep'.returned = CarriesUser(lastAuthStep'.reply)
          /\ CarriesUser(lastAuthStep'.reply) =>
                /\ user' = Some(convertApiUser(The(lastAuthStep'.reply.user)))
                /\ userData' = lastAuthStep'.reply.user
                /\ (localToken' # Null \/ sessionToken' # Null)
                /\ ~isLoading'
                /\ authError' = NoError
          /\ ~CarriesUser(lastAuthStep'.reply) =>
                /\ authError' # NoError
                /\ ~isLoading'
                /\ user' = user]_vars

\* ---------------------------------------------------------------------
\* Claims about the transactions page (PageSpec)
\* ---------------------------------------------------------------------
\* the search parameter a fetch carries for an input value: the empty input
\* is sent as no search parameter
SearchParam(value) == Truthy(value)

\* C6: changes of the search input that each arrive less than 500 ms after
\* the previous one cause exactly one fetchTransactions call: no call is
\* issued when the input changes, and when the debounce timer fires after
\* the last change exactly one call is issued, carrying the final input
\* value as its search parameter.
C6_DebouncedSearchOneFetch ==
    [][/\ lastPageStep'.op = "search" => Len(calls') = Len(calls)
       /\ (lastPageStep'.op = "debounce" /\ lastPageStep'.typed) =>
             /\ Len(calls') = Len(calls) + 1
             /\ calls'[Len(calls')].params.search = SearchParam(searchQuery)]_vars

\* ---------------------------------------------------------------------
\* Claims about logout (AuthSpec)
\* ---------------------------------------------------------------------
LoginRoutes == {"/login/admin", "/login/partner-bank", "/login/submerchant", "/login/merchant"}

\* C11: logout() changes nothing except setting showLogoutModal to true, and
\* setShowLogoutModal(true) clears nothing and redirects nowhere; the store's
\* user, the stored token and the stored user snapshot are cleared and a
\* login route is entered at setShowLogoutModal(false).
C11_LogoutDefersClearing ==
    [][/\ lastAuthStep'.op \in {"logout", "openModal"} =>
             /\ showLogoutModal'
             /\ UNCHANGED <<user, isLoading, authError, localToken, sessionToken,
                            userData, location, pendingLogins>>
       /\ lastAuthStep'.op = "closeModal" =>
             /\ user' = Null
             /\ localToken' = Null
             /\ sessionToken' = Null
             /\ userData' = Null
             /\ ~showLogoutModal'
             /\ location' \in LoginRoutes]_vars

\* logout() was called on a session with a user, a token and a snapshot
C11_Witness ==
    /\ lastAuthStep.op = "logout"
    /\ showLogoutModal
    /\ user # Null
    /\ localToken # Null
    /\ userData # Null
    /\ location \notin LoginRoutes

\* C12: the redirect performed when the logout modal is dismissed depends
\* only on the role held just before the session is cleared: administrator
\* goes to /login/admin, partner-bank to /login/partner-bank, submerchant to
\* /login/submerchant, every other role (merchant, null, no user) to
\* /login/merchant.
C12_RedirectByRole ==
    [][lastAuthStep'.op = "closeModal" =>
          location' =
             IF user = Null THEN "/login/merchant"
             ELSE CASE The(user).role = Some("administrator") -> "/login/admin"
                    [] The(user).role = Some("partner-bank")  -> "/login/partner-bank"
                    [] The(user).role = Some("submerchant")   -> "/login/submerchant"
                    [] OTHER                                  -> "/login/merchant"]_vars

\* an administrator has dismissed the modal
C12_Witness ==
    /\ lastAuthStep.op = "closeModal"
    /\ user = Null
    /\ location = "/login/admin"

\* ---------------------------------------------------------------------
\* Claims about the requests for transaction and report data (ReportSpec)
\* ---------------------------------------------------------------------
\* C13: no request issued for transaction or report data carries the
\* sentinel "all" for partnerBankId, merchantId, subMerchantId or
\* transactionType, in the page's fetches and in the report requests.
C13_NoAllSentinelSent ==
    /\ \A i \in DOMAIN calls :
          /\ calls[i].params.partnerBankId # Some("all")
          /\ calls[i].params.merchantId # Some("all")
          /\ calls[i].params.subMerchantId # Some("all")
    /\ \A k \in {"partnerBankId", "merchantId", "subMerchantId", "transactionType"} :
          lastReport.params[k] # Some("all")

C15_SecretKeyHeaderSent ==
    lastAuthStep.op = "secretRequest" =>
        sentAuthorization = Some("Secret " \o lastAuthStep.secretKey)

\* ---------------------------------------------------------------------
\* Claims about normalization and the hook's state (HookSpec)
\* ---------------------------------------------------------------------
\* C16: normalization picks the transaction array by a fixed priority, first
\* match wins: data.data, then data.items, then data itself, then
\* data.transactions, then the first array-valued property of data.
C16_NormalizationPriority ==
    lastStep.op = "success" =>
        LET rd == The(lastStep.resp.data)
            got == tx[lastStep.category].data
        IN /\ rd.data # Null => got = The(rd.data)
           /\ (rd.data = Null /\ rd.items # Null) => got = The(rd.items)
           /\ (rd.data = Null /\ rd.items = Null /\ rd.self # Null) => got = The(rd.self)
           /\ (rd.data = Null /\ rd.items = Null /\ rd.self = Null
                 /\ rd.transactions # Null) => got = The(rd.transactions)
           /\ (rd.data = Null /\ rd.items = Null /\ rd.self = Null
                 /\ rd.transactions = Null /\ rd.others # <<>>) => got = rd.others[1]

\* a payload with an items array, a transactions array and a further array
\* has been normalized to its items
C16_Witness ==
    /\ lastStep.op = "success"
    /\ The(lastStep.resp.data).items = Some(A2)
    /\ The(lastStep.resp.data).transactions = Some(A1)
    /\ The(lastStep.resp.data).others # <<>>
    /\ tx[lastStep.category].data = A2

\* C17 as stated: a successful response that holds no array gives data = []
\* with meta = {page: 1, perPage: 10, total: 0, totalPages: 1}.
C17_NoArrayMetaOnePage ==
    (lastStep.op = "success" /\ HoldsNoArray(lastStep.resp)) =>
        /\ tx[lastStep.category].data = <<>>
        /\ tx[lastStep.category].meta =
              Some([page |-> 1, perPage |-> 10, total |-> 0, totalPages |-> 1])

\* C17: a successful response that holds no array gives data = [] with
\* meta = {page: 1, perPage: 10, total: 0, totalPages: 0}, whether or not
\* the payload carries a meta of its own.
C17_NoArrayMetaZeroPages ==
    (lastStep.op = "success" /\ HoldsNoArray(lastStep.resp)) =>
        /\ tx[lastStep.category].data = <<>>
        /\ tx[lastStep.category].meta =
              Some([page |-> 1, perPage |-> 10, total |-> 0, totalPages |-> 0])

\* a successful reply whose payload has a meta and no array was handled
C17_Witness ==
    /\ lastStep.op = "success"
    /\ HoldsNoArray(lastStep.resp)
    /\ The(lastStep.resp.data).meta # Null
    /\ The(tx[lastStep.category].meta).totalPages = 0

\* C18: every fetchTransactions call, whatever its outcome, ends with that
\* category's loading = false; when the service call throws an error, the
\* call still ends and the category's error is the error's message.
C18_LoadingAlwaysCleared ==
    [][lastStep'.op \in {"success", "failure", "exception"} =>
          /\ ~tx'[lastStep'.category].loading
          /\ lastStep'.op = "exception" => tx'[lastStep'.category].error # NoError
          /\ lastStep'.resp.outcome = "throwsError" =>
                tx'[lastStep'.category].error = lastStep'.resp.message]_vars

\* the service threw its network error and the category shows it
C18_Witness ==
    /\ lastStep.op = "exception"
    /\ lastStep.resp.outcome = "throwsError"
    /\ tx[lastStep.category].error = NetworkError
    /\ ~tx[lastStep.category].loading

\* C19 as stated: setCurrentCategory(c) does not make the hook issue any
\* request.
C19_SwitchIssuesNoRequest ==
    [][lastStep'.op = "switch" => calls' = calls]_vars

\* C19: setCurrentCategory(c) with c other than the current category makes
\* the hook issue exactly one request, for c and without caller parameters.
C19_SwitchIssuesOneRequest ==
    [][lastStep'.op = "switch" =>
          /\ Len(calls') = Len(calls) + 1
          /\ SubSeq(calls', 1, Len(calls)) = calls
          /\ calls'[Len(calls')].category = currentCategory'
          /\ calls'[Len(calls')].type = TRANSACTION_CATEGORIES(currentCategory')
          /\ calls'[Len(calls')].params = RequestParams(NoParams)
          /\ tx'[currentCategory'].loading]_vars

\* the hook was switched to payout and a payout request is in flight
C19_Witness ==
    /\ lastStep.op = "switch"
    /\ currentCategory = "payout"
    /\ calls[Len(calls)].category = "payout"
    /\ calls[Len(calls)].outcome = "pending"

\* C20: a category's data and meta change only when a fetch for that same
\* category completes successfully; setCurrentCategory, the start of a fetch
\* and a failing fetch leave the data and meta of every category as they were.
C20_DataChangesOnlyOnSuccess ==
    [][\A c \in Categories :
          (tx'[c].data # tx[c].data \/ tx'[c].meta # tx[c].meta) =>
              (lastStep'.op = "success" /\ lastStep'.category = c)]_vars

\* a fetch threw for a category that keeps its cached rows and meta
C20_Witness ==
    /\ lastStep.op = "exception"
    /\ tx[lastStep.category].data # <<>>
    /\ tx[lastStep.category].meta # Null

\* C21: setMerchant(id), from any filter state, sets merchantId = id and
\* subMerchantId = "all", leaves partnerBankId and the merchant option list
\* unchanged, and issues exactly one sub-merchant-options request with
\* argument id when id # "all" and no request when id = "all"; the
\* sub-merchant option list is the single sentinel after the call.
C21_SetMerchantFetchesSubMerchants ==
    [][lastFilterOp'.op = "setMerchant" =>
          /\ filters'.merchantId = lastFilterOp'.arg
          /\ filters'.subMerchantId = "all"
          /\ filters'.partnerBankId = filters.partnerBankId
          /\ filterData'.subMerchants = AllSentinel
          /\ filterData'.merchants = filterData.merchants
          /\ optInflight \subseteq optInflight'
          /\ optInflight' \ optInflight =
                IF lastFilterOp'.arg = "all" THEN {}
                ELSE {[kind |-> "subMerchants", arg |-> lastFilterOp'.arg,
                       seq |-> optIssued + 1]}
          /\ optIssued' = IF lastFilterOp'.arg = "all" THEN optIssued
                          ELSE optIssued + 1]_vars

\* setMerchant("m1") has acted with the partner-bank list loaded: its
\* sub-merchant request is the one request in flight
C21_Witness ==
    /\ lastFilterOp = [op |-> "setMerchant", arg |-> "m1"]
    /\ filters.merchantId = "m1"
    /\ Len(filterData.partnerBanks) = 3
    /\ optInflight = {[kind |-> "subMerchants", arg |-> "m1", seq |-> 2]}

\* C22: in every state reached by driving the filter hook through the
\* filter panel (partner-bank, merchant and sub-merchant selects with their
\* disabled conditions, Clear Filters) under any ordering of option-fetch
\* responses, merchantId # "all" only if partnerBankId # "all", and
\* subMerchantId # "all" only if merchantId # "all".
C22_DependentSelectionsNested ==
    /\ filters.merchantId # "all" => filters.partnerBankId # "all"
    /\ filters.subMerchantId # "all" => filters.merchantId # "all"

\* the three selects were used in turn: a sub-merchant of merchant m1 of
\* bank b1 is selected
C22_Witness ==
    /\ lastFilterOp = [op |-> "setSubMerchant", arg |-> "s1"]
    /\ filters.partnerBankId = "b1"
    /\ filters.merchantId = "m1"
    /\ filters.subMerchantId = "s1"

\* a body the server sent to report a failure: success false, no "success"
\* status, and a message
IsFailurePayload(resp) ==
    /\ resp.outcome = "returns"
    /\ ~resp.isNull
    /\ ~resp.success
    /\ resp.status # "success"
    /\ resp.message # ""

\* C23: when the server answers a categorized-transactions request with a
\* well-formed failure payload (success false together with a message), the
\* category's error after the fetch equals the message the server provided.
C23_FailureShowsServerMessage ==
    [][IsFailurePayload(lastStep'.resp) =>
          tx'[lastStep'.category].error = lastStep'.resp.message]_vars

\* the page's filters that the statistics are meant to follow
StatsFilters(f) ==
    <<f.startDate, f.endDate, f.partnerBankId, f.merchantId, f.subMerchantId>>

\* an analytics query that carries the set values of the filters f
CarriesFilters(params, f) ==
    /\ f.startDate # "" => params.startDate = Some(f.startDate)
    /\ f.endDate # "" => params.endDate = Some(f.endDate)
    /\ f.partnerBankId # "all" => params.partnerBankId = Some(f.partnerBankId)
    /\ f.merchantId # "all" => params.merchantId = Some(f.merchantId)
    /\ f.subMerchantId # "all" => params.subMerchantId = Some(f.subMerchantId)

\* C24: on the transactions page, every change of the start date, end date,
\* partner bank, merchant or sub-merchant filter is followed by a new
\* transaction-statistics request that carries the new filter values.
C24_FilterChangeRefetchesStats ==
    [][StatsFilters(currentFilters') # StatsFilters(currentFilters) =>
          /\ Len(statsCalls') = Len(statsCalls) + 1
          /\ CarriesFilters(statsCalls'[Len(statsCalls')].params, currentFilters')]_vars

\* C24, as seen on the cards: once the analytics requests have settled
\* successfully the figures shown are those of the selected filters.
C24_SettledStatsMatchFilters ==
    (stats.figures # Null /\ \A i \in DOMAIN statsCalls : statsCalls[i].outcome = "success")
        => CarriesFilters(The(stats.figures), currentFilters)

\* C25: for each category, loading is true in every state in which at least
\* one fetchTransactions request for that category is still unresolved,
\* including when several requests for the category overlap and only some
\* of them have resolved.
C25_LoadingWhileUnresolved ==
    \A c \in Categories :
        (\E i \in Pending : calls[i].category = c) => tx[c].loading

\* the option list the hook builds from the merchants of a partner bank
MerchantOptionsOf(partnerBankId) == convertMerchantsToOptions(ServerMerchants(partnerBankId))

\* C26: in every reachable state of the filter hook with no unresolved
\* merchant-options request, the merchant option list is the single sentinel
\* or the sentinel followed by the options returned for the currently
\* selected partnerBankId, and it is the single sentinel whenever
\* partnerBankId = "all".
C26_MerchantOptionsOfSelectedBank ==
    (\A r \in optInflight : r.kind # "merchants") =>
        /\ filterData.merchants \in {AllSentinel, MerchantOptionsOf(filters.partnerBankId)}
        /\ filters.partnerBankId = "all" => filterData.merchants = AllSentinel

\* C27: after any sequence of login, logout confirmation, initializeAuth and
\* 401 responses, a non-null user in the auth store implies that an auth
\* token is present in client storage (isAuthenticated() is true).
C27_UserImpliesToken ==
    user # Null => isAuthenticated(Browser)

\* C28: a login call that returns false leaves the auth token in client
\* storage exactly as it was before the reply was handled: no token is
\* stored by a login that the store reports as failed.
C28_FailedLoginKeepsToken ==
    [][(lastAuthStep'.op = "login" /\ ~lastAuthStep'.returned) =>
          /\ localToken' = localToken
          /\ sessionToken' = sessionToken]_vars

\* C29: on the transactions page, a change of the partner bank, merchant,
\* sub-merchant, date range or transaction-type filter leaves the table's
\* perPage selection unchanged: the perPage sent with the next table fetch
\* is the one last chosen in the per-page selector.
C29_FilterChangeKeepsPerPage ==
    [][lastPageStep'.op = "filters" =>
          /\ currentFilters'.perPage = currentFilters.perPage
          /\ \A i \in DOMAIN calls' \ DOMAIN calls :
                calls'[i].params.perPage = Some(ParseInt(currentFilters.perPage))]_vars

\* C30: on the transactions page, in every state in which the current
\* category is not loading and holds a meta, currentPage is at least 1 and
\* at most max(1, meta.totalPages), after any sequence of page changes,
\* per-page changes, search changes, filter changes and category switches.
C30_CurrentPageWithinTotalPages ==
    (~tx[currentCategory].loading /\ tx[currentCategory].meta # Null) =>
        /\ currentPage >= 1
        /\ currentPage <= IF The(tx[currentCategory].meta).totalPages > 1
                          THEN The(tx[currentCategory].meta).totalPages ELSE 1

====
